---------------------------- MODULE Spec2Model ----------------------------
(***************************************************************************)
(* Model of the slashbot poll command (src/src/poll.rs, src/src/main.rs):  *)
(* the static POLLS registry behind a tokio RwLock, the start and vote     *)
(* handlers dispatched by Handler::interaction_create, and the cleaner     *)
(* task.  Strings are sequences of one-character strings, so that split,   *)
(* sort, dedup, join and format! are computed rather than assumed.         *)
(***************************************************************************)
EXTENDS Integers, Sequences, FiniteSets, TLC

\* ------------------------------------------------------------------ bounds
\* Interaction ids the platform issues to poll commands: 1..MaxPolls.
MaxPolls == 2
\* The clock (tokio Instant) runs over 0..MaxTime.
MaxTime == 2
\* Longest raw option string enumerated exhaustively by SpecParse.
MaxLen == 3

\* The clock counts in units of the poll lifetime that main passes to
\* cleaner(): Duration::from_secs(60 * 5) is one unit.
PollDuration == 1

\* The user ids that press buttons, and the interaction-handling tasks.
Voters == {"u1", "u2"}
HandlerSlots == <<"h1", "h2">>
Handlers == {HandlerSlots[i] : i \in 1..Len(HandlerSlots)}

None == "None"

\* ----------------------------------------------------------------- strings
Alphabet == {" ", ",", "a", "b"}

\* Byte value of a character: str comparison in Rust is bytewise.
CharCode(c) ==
    CASE c = " " -> 32
      [] c = "," -> 44
      [] c = "a" -> 97
      [] c = "b" -> 98
      [] OTHER -> 0

\* <str as Ord>::cmp(a, b) == Less
RECURSIVE StrLess(_, _)
StrLess(a, b) ==
    IF b = <<>> THEN FALSE
    ELSE IF a = <<>> THEN TRUE
    ELSE IF CharCode(Head(a)) # CharCode(Head(b))
         THEN CharCode(Head(a)) < CharCode(Head(b))
         ELSE StrLess(Tail(a), Tail(b))

\* str::split(","): the text between the separators, empty pieces included.
RECURSIVE split(_)
split(s) ==
    IF \A i \in 1..Len(s) : s[i] # ","
    THEN <<s>>
    ELSE LET i == CHOOSE j \in 1..Len(s) :
                     s[j] = "," /\ \A k \in 1..(j - 1) : s[k] # ","
         IN <<SubSeq(s, 1, i - 1)>> \o split(SubSeq(s, i + 1, Len(s)))

\* .filter(|s| !s.is_empty())
IsKept(s) == s # <<>>
filter(tokens) == SelectSeq(tokens, IsKept)

\* Vec::sort on &str: ascending byte order (stable; equal strings are equal).
RECURSIVE InsertSorted(_, _)
InsertSorted(sorted, x) ==
    IF sorted = <<>> THEN <<x>>
    ELSE IF StrLess(x, Head(sorted)) THEN <<x>> \o sorted
    ELSE <<Head(sorted)>> \o InsertSorted(Tail(sorted), x)

RECURSIVE sort(_)
sort(v) == IF v = <<>> THEN <<>> ELSE InsertSorted(sort(Tail(v)), Head(v))

\* Mutant: the dedup call left out.
dedup_none(v) == v

\* Vec::dedup: removes consecutive repeated elements.
RECURSIVE dedup(_)
dedup(v) ==
    IF Len(v) < 2 THEN v
    ELSE IF v[1] = v[2] THEN dedup(Tail(v))
    ELSE <<v[1]>> \o dedup(Tail(v))

\* [String]::join(sep)
RECURSIVE join(_, _)
join(v, sep) ==
    IF v = <<>> THEN <<>>
    ELSE IF Len(v) = 1 THEN v[1]
    ELSE v[1] \o sep \o join(Tail(v), sep)

\* Display of a u32 with {}: decimal digits.
Digit(n) == <<"0", "1", "2", "3", "4", "5", "6", "7", "8", "9">>[n + 1]
RECURSIVE ToDecimal(_)
ToDecimal(n) ==
    IF n < 10 THEN <<Digit(n)>> ELSE ToDecimal(n \div 10) \o <<Digit(n % 10)>>


\* Option<T>: <<>> is None, <<x>> is Some(x).
Some(x) == <<x>>
IsSome(o) == o # <<>>
Unwrap(o) == o[1]

\* HashMap: a function on its key set.
EmptyMap == [k \in {} |-> k]
insert(map, key, val) ==
    [k \in DOMAIN map \cup {key} |-> IF k = key THEN val ELSE map[k]]
remove(map, keys) == [k \in DOMAIN map \ keys |-> map[k]]

\* ------------------------------------------------------------ poll.rs data
COMMAND == "poll"

PollData(start_time, options, votes) ==
    [start_time |-> start_time, options |-> options, votes |-> votes]

\* PollData::votes_for: one pass over votes.values(), counting the equal ones.
RECURSIVE CountEqual(_, _, _)
CountEqual(votes, keys, vote_id) ==
    IF keys = {} THEN 0
    ELSE LET k == CHOOSE x \in keys : TRUE
         IN (IF votes[k] = vote_id THEN 1 ELSE 0)
            + CountEqual(votes, keys \ {k}, vote_id)

votes_for(poll_data, vote_id) ==
    CountEqual(poll_data.votes, DOMAIN poll_data.votes, vote_id)

\* Message components, as sent (CreateActionRow, CreateButton) and as echoed
\* back by the platform in a button-press event (Component).
Button(custom_id, label) ==
    [kind |-> "Button", custom_id |-> custom_id, label |-> label,
     components |-> <<>>]
ActionRow(components) ==
    [kind |-> "ActionRow", custom_id |-> <<>>, label |-> <<>>,
     components |-> components]
SelectMenu ==
    [kind |-> "SelectMenu", custom_id |-> <<>>, label |-> <<>>,
     components |-> <<>>]

\* format!("{}: {}", option, votes)
create_vote_button(option, votes) ==
    Button(Some(option), option \o <<":", " ">> \o ToDecimal(votes))

\* format!("Vote:\n{}", poll_data.options.join(","))
create_content(poll_data) ==
    <<"V", "o", "t", "e", ":", "\n">> \o join(poll_data.options, <<",">>)

Message(content, components) == [content |-> content, components |-> components]

\* -------------------------------------------------------------- the state
VARIABLES
    now,       \* tokio's clock
    POLLS,     \* the static registry: interaction id -> PollData
    lock,      \* holder of POLLS' write lock: "free", a handler or "cleaner"
    task,      \* the interaction-handling tasks: position and locals
    cleaner,   \* the cleaner task: its position and its local `remove`
    messages,  \* platform side: poll id -> Option<message as last shown>
    nextId,    \* the id the platform gives the next poll command
    evicted    \* history: ids removed by the cleaner -> time of the sweep

vars == <<now, POLLS, lock, task, cleaner, messages, nextId, evicted>>

PollIds == 1..MaxPolls

\* A task that handles no interaction.
Idle ==
    [pc |-> "idle", fn |-> "", interaction_id |-> 0, command |-> <<>>,
     poll_data |-> <<>>,
     member |-> None, custom_id |-> <<>>, components |-> <<>>,
     response |-> <<>>, res |-> ""]

\* A handler that returned res for the interaction it was given: its locals
\* are gone.
Finished(t, res) ==
    [t EXCEPT !.pc = "done", !.res = res, !.command = <<>>, !.poll_data = <<>>,
              !.components = <<>>, !.response = <<>>]

\* --------------------------------------------------- start (poll.rs 39-96)
StringValue(str) == [kind |-> "String", str |-> str]
NumberValue == [kind |-> "Number", str |-> <<>>]
CommandOption(name, value) == [name |-> name, value |-> value]

\* Lines 45-62: the option list of the command, or the error that ends start.
ParseOptions(options) ==
    LET found == SelectSeq(options, LAMBDA o : o.name = "options")
    IN  IF found = <<>> THEN [err |-> "missing options", options |-> <<>>]
        ELSE IF ~IsSome(found[1].value)
        THEN [err |-> "missing options value", options |-> <<>>]
        ELSE IF Unwrap(found[1].value).kind # "String"
        THEN [err |-> "invalid options value", options |-> <<>>]
        ELSE LET kept == filter(split(Unwrap(found[1].value).str))
             IN  IF kept = <<>> THEN [err |-> "no options", options |-> <<>>]
                 ELSE [err |-> "", options |-> dedup(sort(kept))]

\* Lines 79-86: one row, one button per option, every count 0.
StartRow(options) ==
    ActionRow([i \in 1..Len(options) |-> create_vote_button(options[i], 0)])

\* start up to its first await: parse, build poll_data, send the response.
start_begin(h, interaction) ==
    LET parsed == ParseOptions(interaction.data.options)
        poll_data == PollData(now, parsed.options, EmptyMap)
    IN  task' = [task EXCEPT ![h] =
            IF parsed.err # ""
            THEN Finished([Idle EXCEPT !.fn = "start",
                                       !.interaction_id = interaction.id],
                          parsed.err)
            ELSE [Idle EXCEPT
                    !.pc = "start_respond",
                    !.fn = "start",
                    !.interaction_id = interaction.id,
                    !.command = interaction.data.options,
                    !.poll_data = Some(poll_data),
                    !.response = Some(Message(create_content(poll_data),
                                              <<StartRow(parsed.options)>>))]]

\* Mutant: the result of create_interaction_response ignored (no `?`).
start_response_unchecked(h, ok) ==
    /\ task[h].pc = "start_respond"
    /\ messages' = IF ok THEN [messages EXCEPT
                                ![task[h].interaction_id] = task[h].response]
                   ELSE messages
    /\ task' = [task EXCEPT ![h].pc = "start_lock", ![h].response = <<>>]
    /\ UNCHANGED <<now, POLLS, lock, cleaner, nextId, evicted>>

\* Mutant: the poll is stored as soon as its message is created.
start_response_storing(h, ok) ==
    /\ task[h].pc = "start_respond"
    /\ IF ok
       THEN /\ messages' = [messages EXCEPT
                              ![task[h].interaction_id] = task[h].response]
            /\ POLLS' = insert(POLLS, task[h].interaction_id,
                               Unwrap(task[h].poll_data))
            /\ task' = [task EXCEPT ![h].pc = "start_lock", ![h].response = <<>>]
       ELSE /\ task' = [task EXCEPT
                          ![h] = Finished(@, "failed to create response")]
            /\ UNCHANGED <<messages, POLLS>>
    /\ UNCHANGED <<now, lock, cleaner, nextId, evicted>>

\* Lines 72-90: create_interaction_response returns.
start_response(h, ok) ==
    /\ task[h].pc = "start_respond"
    /\ IF ok
       THEN /\ messages' = [messages EXCEPT
                              ![task[h].interaction_id] = task[h].response]
            /\ task' = [task EXCEPT ![h].pc = "start_lock", ![h].response = <<>>]
       ELSE /\ task' = [task EXCEPT
                          ![h] = Finished(@, "failed to create response")]
            /\ UNCHANGED messages
    /\ UNCHANGED <<now, POLLS, lock, cleaner, nextId, evicted>>

\* Lines 93-95: POLLS.write().await, insert, the guard dropped on return.
start_insert(h) ==
    /\ task[h].pc = "start_lock"
    /\ lock = "free"
    /\ POLLS' = insert(POLLS, task[h].interaction_id, Unwrap(task[h].poll_data))
    /\ task' = [task EXCEPT ![h] = Finished(@, "Ok")]
    /\ UNCHANGED <<now, lock, cleaner, messages, nextId, evicted>>

\* --------------------------------------------------- vote (poll.rs 98-156)
\* Lines 129-141: the buttons of the event's first action row, recounted.
RECURSIVE RebuildButtons(_, _)
RebuildButtons(poll_data, components) ==
    IF components = <<>> THEN [err |-> "", row |-> <<>>]
    ELSE IF Head(components).kind # "Button"
    THEN [err |-> "unexpected component", row |-> <<>>]
    ELSE IF ~IsSome(Head(components).custom_id)
    THEN [err |-> "missing custom id", row |-> <<>>]
    ELSE LET custom_id == Unwrap(Head(components).custom_id)
             votes == votes_for(poll_data, custom_id)
             rest == RebuildButtons(poll_data, Tail(components))
         IN  IF rest.err # "" THEN rest
             ELSE [err |-> "",
                   row |-> <<create_vote_button(custom_id, votes)>> \o rest.row]

\* Lines 117-141: the updated row from the message the event carries.
UpdatedRow(poll_data, components) ==
    IF components = <<>> THEN [err |-> "missing action row", row |-> <<>>]
    ELSE IF Head(components).kind # "ActionRow"
    THEN [err |-> "invalid component", row |-> <<>>]
    ELSE RebuildButtons(poll_data, Head(components).components)

\* Mutant: lock.entry(id).or_insert_with(..) in place of get_mut.
get_or_insert(map, key) ==
    Some(IF key \in DOMAIN map THEN map[key] ELSE PollData(now, <<>>, EmptyMap))

\* Line 107: lock.get_mut(&interaction_id)
get_mut(map, key) == IF key \in DOMAIN map THEN Some(map[key]) ELSE <<>>

\* Mutant: votes.entry(user_id).or_insert(..), which keeps a first vote.
record_vote_keep_first(poll_data, user_id, custom_id) ==
    IF user_id \in DOMAIN poll_data.votes THEN poll_data
    ELSE [poll_data EXCEPT !.votes = insert(@, user_id, custom_id)]

\* Mutant: the ledger replaced by the one entry of the vote.
record_vote_alone(poll_data, user_id, custom_id) ==
    [poll_data EXCEPT !.votes = insert(EmptyMap, user_id, custom_id)]

\* Mutant: a vote renews the record's start_time.
record_vote_touch(poll_data, user_id, custom_id) ==
    [poll_data EXCEPT !.votes = insert(@, user_id, custom_id),
                      !.start_time = now]

\* Mutant: a repeated vote withdraws the entry.
record_vote_toggle(poll_data, user_id, custom_id) ==
    IF user_id \in DOMAIN poll_data.votes /\ poll_data.votes[user_id] = custom_id
    THEN [poll_data EXCEPT !.votes = remove(@, {user_id})]
    ELSE [poll_data EXCEPT !.votes = insert(@, user_id, custom_id)]

\* Line 115: poll_data.votes.insert(user_id, component.custom_id.clone())
record_vote(poll_data, user_id, custom_id) ==
    [poll_data EXCEPT !.votes = insert(@, user_id, custom_id)]

\* Mutant: the vote is taken back when the row cannot be built.
vote_locked_rollback(h, t) ==
    LET found == get_mut(POLLS, t.interaction_id)
    IN  IF ~IsSome(found)
        THEN /\ task' = [task EXCEPT
                           ![h] = Finished(t, "unexpected interaction id")]
             /\ UNCHANGED <<POLLS, lock>>
        ELSE IF t.member = None
        THEN /\ task' = [task EXCEPT ![h] = Finished(t, "missing member")]
             /\ UNCHANGED <<POLLS, lock>>
        ELSE LET poll_data == record_vote(Unwrap(found), t.member, t.custom_id)
                 built == UpdatedRow(poll_data, t.components)
             IN  IF built.err # ""
                 THEN /\ task' = [task EXCEPT ![h] = Finished(t, built.err)]
                      /\ UNCHANGED <<POLLS, lock>>
                 ELSE /\ POLLS' = insert(POLLS, t.interaction_id, poll_data)
                      /\ task' = [task EXCEPT ![h] =
                            [t EXCEPT
                               !.pc = "vote_respond",
                               !.components = <<>>,
                               !.response =
                                   Some(Message(create_content(poll_data),
                                                <<ActionRow(built.row)>>))]]
                      /\ lock' = h

\* Lines 105-154 up to the await, for the task record t: the write guard
\* is granted, the vote is saved and the updated message is sent.  The guard
\* `lock` lives until the function returns, so it is still held while the
\* response is awaited.
vote_locked(h, t) ==
    LET found == get_mut(POLLS, t.interaction_id)
    IN  IF ~IsSome(found)
        THEN /\ task' = [task EXCEPT
                           ![h] = Finished(t, "unexpected interaction id")]
             /\ UNCHANGED <<POLLS, lock>>
        ELSE IF t.member = None
        THEN /\ task' = [task EXCEPT ![h] = Finished(t, "missing member")]
             /\ UNCHANGED <<POLLS, lock>>
        ELSE LET poll_data == record_vote(Unwrap(found), t.member, t.custom_id)
                 built == UpdatedRow(poll_data, t.components)
             IN  /\ POLLS' = insert(POLLS, t.interaction_id, poll_data)
                 /\ IF built.err # ""
                    THEN /\ task' = [task EXCEPT ![h] = Finished(t, built.err)]
                         /\ UNCHANGED lock
                    ELSE /\ task' = [task EXCEPT ![h] =
                               [t EXCEPT
                                  !.pc = "vote_respond",
                                  !.components = <<>>,
                                  !.response =
                                      Some(Message(create_content(poll_data),
                                                   <<ActionRow(built.row)>>))]]
                         /\ lock' = h

\* Mutant: vote reaches the map without waiting for the write lock.
vote_begin_unguarded(h, t) == vote_locked(h, t)

\* Line 105: POLLS.write().await.  A free lock is granted at once; a held one
\* suspends the task until vote_critical.
vote_begin(h, t) ==
    IF lock = "free"
    THEN vote_locked(h, t)
    ELSE /\ task' = [task EXCEPT ![h] = [t EXCEPT !.pc = "vote_lock"]]
         /\ UNCHANGED <<POLLS, lock>>

\* A vote suspended on the write lock is granted it.
vote_critical(h) ==
    /\ task[h].pc = "vote_lock"
    /\ lock = "free"
    /\ vote_locked(h, task[h])
    /\ UNCHANGED <<now, cleaner, messages, nextId, evicted>>

\* Mutant: a failed update leaves vote with the write guard.
vote_response_keeps_guard(h, ok) ==
    /\ task[h].pc = "vote_respond"
    /\ lock = h
    /\ lock' = IF ok THEN "free" ELSE h
    /\ IF ok
       THEN /\ messages' = [messages EXCEPT
                              ![task[h].interaction_id] = task[h].response]
            /\ task' = [task EXCEPT ![h] = Finished(@, "Ok")]
       ELSE /\ task' = [task EXCEPT ![h] = Finished(@, "http error")]
            /\ UNCHANGED messages
    /\ UNCHANGED <<now, POLLS, cleaner, nextId, evicted>>

\* Lines 144-155: create_interaction_response returns, vote returns and the
\* write guard is dropped.
vote_response(h, ok) ==
    /\ task[h].pc = "vote_respond"
    /\ lock = h
    /\ lock' = "free"
    /\ IF ok
       THEN /\ messages' = [messages EXCEPT
                              ![task[h].interaction_id] = task[h].response]
            /\ task' = [task EXCEPT ![h] = Finished(@, "Ok")]
       ELSE /\ task' = [task EXCEPT ![h] = Finished(@, "http error")]
            /\ UNCHANGED messages
    /\ UNCHANGED <<now, POLLS, cleaner, nextId, evicted>>

\* ------------------------------------------------ main.rs 59-92: dispatch
NoData == [kind |-> "None", name |-> "", options |-> <<>>, custom_id |-> <<>>]
ApplicationCommand(name, options) ==
    [kind |-> "ApplicationCommand", name |-> name, options |-> options,
     custom_id |-> <<>>]
MessageComponent(custom_id) ==
    [kind |-> "MessageComponent", name |-> "", options |-> <<>>,
     custom_id |-> custom_id]

NoMessage == [kind |-> "None", interaction |-> <<>>, components |-> <<>>]
Regular(interaction, components) ==
    [kind |-> "Regular", interaction |-> interaction, components |-> components]
Ephemeral == [kind |-> "Ephemeral", interaction |-> <<>>, components |-> <<>>]
MessageInteraction(name, id) == [name |-> name, id |-> id]

Interaction(id, data, member, message) ==
    [id |-> id, data |-> data, member |-> member, message |-> message]

\* What interaction_create hands the interaction to.
Route(interaction) ==
    IF interaction.data.kind = "ApplicationCommand"
    THEN IF interaction.data.name = COMMAND THEN "start" ELSE "return"
    ELSE IF interaction.data.kind = "MessageComponent"
    THEN IF /\ interaction.message.kind = "Regular"
            /\ IsSome(interaction.message.interaction)
            /\ Unwrap(interaction.message.interaction).name = COMMAND
         THEN "vote" ELSE "return"
    ELSE "return"

\* What vote reads of the components a press carries: their kinds and custom
\* ids (lines 124-132), never their labels.
RECURSIVE ReadComponents(_)
ReadComponents(components) ==
    [i \in 1..Len(components) |->
        [components[i] EXCEPT !.label = <<>>,
                              !.components = ReadComponents(@)]]

\* The vote task's view of a button press.
VoteTask(interaction) ==
    [Idle EXCEPT
       !.fn = "vote",
       !.interaction_id = Unwrap(interaction.message.interaction).id,
       !.member = interaction.member,
       !.custom_id = interaction.data.custom_id,
       !.components = ReadComponents(interaction.message.components)]

\* Handler::interaction_create: a task is spawned for the event and runs to
\* its first suspension (the response of start, a held write lock in vote) or
\* to its return.
interaction_create(h, interaction) ==
    /\ h \in Handlers
    /\ task[h].pc = "idle"
    /\ CASE Route(interaction) = "start" ->
              /\ interaction.id = nextId
              /\ nextId' = nextId + 1
              /\ start_begin(h, interaction)
              /\ UNCHANGED <<POLLS, lock>>
         [] Route(interaction) = "vote" ->
              /\ vote_begin(h, VoteTask(interaction))
              /\ UNCHANGED nextId
         [] OTHER ->
              /\ task' = [task EXCEPT ![h] = Finished(Idle, "")]
              /\ UNCHANGED <<nextId, POLLS, lock>>
    /\ UNCHANGED <<now, cleaner, messages, evicted>>

\* main.rs 84, 88-92: the result is logged and the task ends.
print_errors(h) ==
    /\ task[h].pc = "done"
    /\ task' = [task EXCEPT ![h] = Idle]
    /\ UNCHANGED <<now, POLLS, lock, cleaner, messages, nextId, evicted>>

\* ----------------------------------------------- cleaner (poll.rs 158-174)
\* Mutant: >= in place of >.
Expired_at(val, poll_duration) == now - val.start_time >= poll_duration

\* Line 166: val.start_time.elapsed() > poll_duration
Expired(val, poll_duration) == now - val.start_time > poll_duration

\* Lines 164-169: the keys of the old polls, collected under the guard.
scan(poll_duration) ==
    {key \in DOMAIN POLLS : Expired(POLLS[key], poll_duration)}

\* Lines 170-172: the collected keys are removed.
sweep(to_remove) ==
    /\ POLLS' = remove(POLLS, to_remove)
    /\ evicted' = [k \in DOMAIN evicted \cup to_remove |->
                     IF k \in to_remove THEN now ELSE evicted[k]]

\* Line 162: interval.tick().await completes; POLLS.write().await is next.
cleaner_tick ==
    /\ cleaner.pc = "tick"
    /\ cleaner' = [cleaner EXCEPT !.pc = "lock"]
    /\ UNCHANGED <<now, POLLS, lock, task, messages, nextId, evicted>>

\* Lines 163-169: the cleaner is granted the write lock and scans the map.
cleaner_scan(poll_duration) ==
    /\ cleaner.pc = "lock"
    /\ lock = "free"
    /\ lock' = "cleaner"
    /\ cleaner' = [pc |-> "remove", remove |-> scan(poll_duration)]
    /\ UNCHANGED <<now, POLLS, task, messages, nextId, evicted>>

\* Lines 170-173: the cleaner removes what it collected, drops the guard at
\* the end of the loop body and awaits the next tick.
cleaner_sweep ==
    /\ cleaner.pc = "remove"
    /\ lock = "cleaner"
    /\ sweep(cleaner.remove)
    /\ lock' = "free"
    /\ cleaner' = [pc |-> "tick", remove |-> {}]
    /\ UNCHANGED <<now, task, messages, nextId>>

\* Time passes.
Tick ==
    /\ now < MaxTime
    /\ now' = now + 1
    /\ UNCHANGED <<POLLS, lock, task, cleaner, messages, nextId, evicted>>

\* ------------------------------------------------------ the event stream
\* Raw values of the "options" argument that users type.
RawInputs ==
    { <<"b", ",", "a", ",", "a", ",", ",", "b">>,
      <<"a">>,
      <<",">> }

StoreInputs == { <<"b", ",", "a">>, <<",">> }

\* All strings over Alphabet of length at most n.
RECURSIVE Strings(_)
Strings(n) ==
    IF n = 0 THEN {<<>>}
    ELSE LET shorter == Strings(n - 1)
         IN  shorter \cup {Append(s, c) : s \in shorter, c \in Alphabet}

ParseInputs ==
    Strings(MaxLen) \cup RawInputs \cup {<<" ", ",", " ">>}

\* The options of a command event: the string argument the command declares
\* (lines 26-32), or a list without it.
StringOptions(raws) ==
    { <<CommandOption("options", Some(StringValue(raw)))>> : raw \in raws }
MalformedOptions ==
    { <<>>,
      <<CommandOption("options", <<>>)>>,
      <<CommandOption("options", Some(NumberValue))>> }

\* The command events the platform may deliver next: the poll command with
\* the next interaction id (while it is at most max_id) and any of the given
\* option lists, or some other command.
CommandInvoked(option_lists, max_id) ==
    IF nextId > max_id THEN {}
    ELSE { Interaction(nextId, ApplicationCommand(COMMAND, options), "u1",
                       NoMessage) : options \in option_lists }
         \cup { Interaction(nextId, ApplicationCommand("other", <<>>), "u1",
                            NoMessage) }

\* Identifiers a button press may carry.
CustomIds == { <<"a">>, <<"b">> }

\* Button layouts a press may carry besides the one the poll's message shows.
MalformedLayouts ==
    { <<>>,
      <<Button(Some(<<"a">>), <<>>)>>,
      <<ActionRow(<<SelectMenu>>)>>,
      <<ActionRow(<<Button(<<>>, <<>>)>>)>> }
ForeignLayouts == { <<ActionRow(<<Button(Some(<<"b">>), <<>>)>>)>> }

\* The layout of the message a press on poll id's message carries.
ShownLayouts(id) ==
    IF IsSome(messages[id]) THEN {Unwrap(messages[id]).components} ELSE {}

\* The button presses the platform may deliver next: on a message of the
\* poll command that refers to any poll id, or on some other message.  Presses
\* get interaction ids of their own, which vote never reads: 0.
ComponentActivated(members, custom_ids, layouts) ==
    { Interaction(0, MessageComponent(custom_id), member,
                  Regular(Some(MessageInteraction(COMMAND, id)), layout)) :
        custom_id \in custom_ids, member \in members,
        id \in PollIds, layout \in layouts }
    \cup UNION { { Interaction(0, MessageComponent(custom_id), member,
                     Regular(Some(MessageInteraction(COMMAND, id)), layout)) :
                     custom_id \in custom_ids, member \in members,
                     layout \in ShownLayouts(id) } : id \in PollIds }
    \cup { Interaction(0, MessageComponent(<<"a">>), "u1", message) :
             message \in { NoMessage, Ephemeral, Regular(<<>>, <<>>),
                           Regular(Some(MessageInteraction("other", 1)), <<>>) } }

\* ------------------------------------------------------ the specification
Init ==
    /\ now = 0
    /\ POLLS = EmptyMap
    /\ lock = "free"
    /\ task = [h \in Handlers |-> Idle]
    /\ cleaner = [pc |-> "tick", remove |-> {}]
    /\ messages = [id \in PollIds |-> <<>>]
    /\ nextId = 1
    /\ evicted = EmptyMap

\* Tasks have no identity of their own: a new one takes the first free slot.
FreeSlot ==
    LET free == {i \in 1..Len(HandlerSlots) : task[HandlerSlots[i]].pc = "idle"}
    IN  IF free = {} THEN None
        ELSE HandlerSlots[CHOOSE i \in free : \A j \in free : i <= j]

\* The platform delivers an event and a task is spawned for it.
Dispatch(events) ==
    \E interaction \in events : interaction_create(FreeSlot, interaction)

\* The same, while no other task is running.
DispatchAlone(events) ==
    /\ \A h \in Handlers : task[h].pc = "idle"
    /\ Dispatch(events)

\* The steps of the running tasks whose await was on the platform, and the
\* end of a task.
Resume ==
    \/ \E h \in Handlers, ok \in BOOLEAN : start_response(h, ok)
    \/ \E h \in Handlers : start_insert(h)
    \/ \E h \in Handlers, ok \in BOOLEAN : vote_response(h, ok)
    \/ \E h \in Handlers : print_errors(h)

\* The cleaner task.
Clean ==
    \/ cleaner_tick
    \/ cleaner_scan(PollDuration)
    \/ cleaner_sweep

\* Spec: every interleaving of two tasks, the cleaner and the clock, for up
\* to MaxPolls polls and one voter who presses buttons the messages show.
StoreEvents ==
    CommandInvoked(StringOptions(StoreInputs), MaxPolls)
    \cup ComponentActivated({"u1"}, {<<"a">>}, {})

Next ==
    \/ Dispatch(StoreEvents)
    \/ Resume
    \/ \E h \in Handlers : vote_critical(h)
    \/ Clean
    \/ Tick

Spec == Init /\ [][Next]_vars

\* SpecLive: Spec with the scheduling the runtime guarantees.  The clock
\* advances, a task that can run does run, and tokio's RwLock is fair, so a
\* task that waits for the write lock gets it if the lock is freed again and
\* again.  Nothing is assumed of the platform: an event need not arrive and a
\* create_interaction_response call need not return.
Fairness ==
    /\ WF_vars(Tick)
    /\ WF_vars(cleaner_tick)
    /\ SF_vars(cleaner_scan(PollDuration))
    /\ WF_vars(cleaner_sweep)
    /\ \A h \in Handlers :
          /\ SF_vars(start_insert(h))
          /\ SF_vars(vote_critical(h))
          /\ WF_vars(print_errors(h))

SpecLive == Spec /\ Fairness

\* SpecVote: one poll and one task at a time, with every voter (or none),
\* every identifier and every layout a press may carry.
VoteEvents ==
    CommandInvoked(StringOptions(RawInputs), 1)
    \cup ComponentActivated(Voters \cup {None}, CustomIds,
                            MalformedLayouts \cup ForeignLayouts)

NextVote ==
    \/ DispatchAlone(VoteEvents)
    \/ Resume
    \/ \E h \in Handlers : vote_critical(h)
    \/ Clean
    \/ Tick

SpecVote == Init /\ [][NextVote]_vars

\* SpecRace: one poll and two tasks at a time, with both voters pressing the
\* buttons the message shows.
RaceEvents ==
    CommandInvoked(StringOptions({<<"b", ",", "a">>}), 1)
    \cup ComponentActivated(Voters, CustomIds, {})

NextRace ==
    \/ Dispatch(RaceEvents)
    \/ Resume
    \/ \E h \in Handlers : vote_critical(h)
    \/ Clean
    \/ Tick

SpecRace == Init /\ [][NextRace]_vars

\* SpecParse: one poll command at a time, with every option string of length
\* at most MaxLen (and the longer ones of RawInputs), or no such string.
ParseEvents ==
    CommandInvoked(StringOptions(ParseInputs) \cup MalformedOptions, 1)

NextParse ==
    \/ DispatchAlone(ParseEvents)
    \/ \E h \in Handlers, ok \in BOOLEAN : start_response(h, ok)
    \/ \E h \in Handlers : start_insert(h)
    \/ \E h \in Handlers : print_errors(h)

SpecParse == Init /\ [][NextParse]_vars

\* ------------------------------------------------------------- properties
Range(seq) == {seq[i] : i \in 1..Len(seq)}
A == <<"a">>
B == <<"b">>

\* Task h ran vote's lookup (line 106-108) in this step: it was dispatched
\* with the lock free, or was granted the lock it waited for.
VoteLookupStep(h) ==
    /\ task[h].pc \in {"idle", "vote_lock"}
    /\ task'[h].fn = "vote"
    /\ task'[h].pc \in {"done", "vote_respond"}

Age(id) == now - POLLS[id].start_time

\* C1: a vote on a poll id that is not in the store returns the unknown-poll
\* error ("unexpected interaction id") and leaves the whole store as it was.
C1_UnknownPollLeavesStore ==
    [][\A h \in Handlers :
          (VoteLookupStep(h) /\ task'[h].interaction_id \notin DOMAIN POLLS)
          => /\ task'[h].pc = "done"
             /\ task'[h].res = "unexpected interaction id"
             /\ POLLS' = POLLS]_vars

\* A vote on an evicted id has returned the error while another poll is stored.
C1_Witness ==
    \E h \in Handlers :
        /\ task[h].fn = "vote" /\ task[h].pc = "done"
        /\ task[h].res = "unexpected interaction id"
        /\ task[h].interaction_id \in DOMAIN evicted
        /\ POLLS # EmptyMap

\* C2: in every reachable state every value of every record's vote ledger is
\* one of that record's options.
C2_VotesAreOptions ==
    \A id \in DOMAIN POLLS : \A u \in DOMAIN POLLS[id].votes :
        POLLS[id].votes[u] \in Range(POLLS[id].options)

\* C3: a vote whose identifier is not among the record's options fails and
\* leaves the ledger unchanged; otherwise votes[voter] is set to it.
C3_UnknownOptionRejected ==
    [][\A h \in Handlers :
          LET id == task'[h].interaction_id
          IN  (VoteLookupStep(h) /\ id \in DOMAIN POLLS /\ task'[h].member # None)
              => IF task'[h].custom_id \in Range(POLLS[id].options)
                 THEN POLLS'[id].votes[task'[h].member] = task'[h].custom_id
                 ELSE /\ task'[h].pc = "done"
                      /\ task'[h].res # "Ok"
                      /\ POLLS'[id].votes = POLLS[id].votes]_vars

\* C4: a sweep with lifetime L removes exactly the records older than L; the
\* records of age at most L stay, unchanged.  The ages are those of the scan.
C4_SweepRemovesExactlyOlder ==
    [][/\ (cleaner.pc = "lock" /\ cleaner'.pc = "remove")
          => cleaner'.remove = {id \in DOMAIN POLLS : Age(id) > PollDuration}
       /\ (cleaner.pc = "remove" /\ cleaner'.pc = "tick")
          => /\ DOMAIN POLLS' = DOMAIN POLLS \ cleaner.remove
             /\ \A id \in DOMAIN POLLS' : POLLS'[id] = POLLS[id]]_vars

\* A sweep at the present time removed a record and kept one of age exactly L.
C4_Witness ==
    /\ cleaner.pc = "tick"
    /\ \E id \in DOMAIN evicted : evicted[id] = now
    /\ \E id \in DOMAIN POLLS : Age(id) = PollDuration

\* C5: an id removed by a sweep is never again a key of the store.
C5_EvictedNeverReturns ==
    \A id \in DOMAIN evicted : id \notin DOMAIN POLLS

\* After an eviction a vote on the evicted id has been handled and a poll
\* started after the eviction is stored.
C5_Witness ==
    \E id \in DOMAIN evicted :
        /\ \E h \in Handlers :
              /\ task[h].fn = "vote" /\ task[h].pc = "done"
              /\ task[h].interaction_id = id
        /\ \E other \in DOMAIN POLLS : POLLS[other].start_time >= evicted[id]

\* C6: a vote gives its voter exactly one ledger entry, the option just
\* chosen, and leaves every other voter's entry alone, so that the tally of
\* each option counts the voter for the latest choice only.
C6_LastVoteWins ==
    [][\A h \in Handlers :
          LET id == task'[h].interaction_id
              u == task'[h].member
              c == task'[h].custom_id
          IN  (VoteLookupStep(h) /\ id \in DOMAIN POLLS /\ u # None)
              => LET old == POLLS[id].votes
                     new == POLLS'[id].votes
                 IN  /\ DOMAIN new = DOMAIN old \cup {u}
                     /\ new[u] = c
                     /\ \A v \in DOMAIN old \ {u} : new[v] = old[v]
                     /\ \A o \in CustomIds :
                          votes_for(POLLS'[id], o) =
                              Cardinality({v \in DOMAIN old \ {u} : old[v] = o})
                              + (IF o = c THEN 1 ELSE 0)]_vars

\* The only voter voted a, which the message shows, then b: the tally being
\* sent is a: 0, b: 1.
C6_Witness ==
    \E h \in Handlers : \E id \in DOMAIN POLLS :
        /\ task[h].pc = "vote_respond" /\ task[h].interaction_id = id
        /\ task[h].custom_id = B
        /\ DOMAIN POLLS[id].votes = {task[h].member}
        /\ IsSome(messages[id])
        /\ Unwrap(messages[id]).components =
               <<ActionRow(<<create_vote_button(A, 1), create_vote_button(B, 0)>>)>>
        /\ Unwrap(task[h].response).components =
               <<ActionRow(<<create_vote_button(A, 0), create_vote_button(B, 1)>>)>>

\* The count a button shows: the number its label ends with.
ShownCount(button) ==
    CHOOSE n \in 0..Cardinality(Voters) :
        button.label = Unwrap(button.custom_id) \o <<":", " ">> \o ToDecimal(n)

RECURSIVE SumShown(_)
SumShown(buttons) ==
    IF buttons = <<>> THEN 0
    ELSE ShownCount(Head(buttons)) + SumShown(Tail(buttons))

\* C7: the per-option counts of the tally that Record-Vote renders add up to
\* the number of voters in the record's ledger.
C7_TallySumsToVoters ==
    \A h \in Handlers :
        task[h].pc = "vote_respond"
        => SumShown(Unwrap(task[h].response).components[1].components)
           = Cardinality(DOMAIN POLLS[task[h].interaction_id].votes)

\* C8: a poll is stored only after its message was created: every stored id
\* has a message, and a start that failed stored nothing.
C8_StoredOnlyAfterDisplay ==
    /\ \A id \in DOMAIN POLLS : IsSome(messages[id])
    /\ \A h \in Handlers :
          (task[h].fn = "start" /\ task[h].pc = "done" /\ task[h].res # "Ok")
          => task[h].interaction_id \notin DOMAIN POLLS

\* A start whose message was refused has returned and left nothing, while
\* another poll is stored with its message.
C8_Witness ==
    /\ \E h \in Handlers :
          /\ task[h].fn = "start" /\ task[h].pc = "done"
          /\ task[h].res = "failed to create response"
          /\ task[h].interaction_id \notin DOMAIN POLLS
          /\ ~IsSome(messages[task[h].interaction_id])
    /\ POLLS # EmptyMap

\* The non-empty pieces of raw between commas.
NonEmptyTokens(raw) ==
    { SubSeq(raw, i, j) : <<i, j>> \in
        { p \in (1..Len(raw)) \X (1..Len(raw)) :
            /\ p[1] <= p[2]
            /\ \A k \in p[1]..p[2] : raw[k] # ","
            /\ (p[1] = 1 \/ raw[p[1] - 1] = ",")
            /\ (p[2] = Len(raw) \/ raw[p[2] + 1] = ",") } }

\* The strings of a set in strictly ascending byte order.
RECURSIVE Ascending(_)
Ascending(S) ==
    IF S = {} THEN <<>>
    ELSE LET least == CHOOSE x \in S : \A y \in S \ {x} : StrLess(x, y)
         IN  <<least>> \o Ascending(S \ {least})

RawOf(t) == Unwrap(t.command[1].value).str
Example == <<"b", ",", "a", ",", "a", ",", ",", "b">>

\* C9: the option list start builds is the strictly ascending list of the
\* set of non-empty comma-separated tokens of the input, whatever their order
\* and multiplicity; "b,a,a,,b" gives ["a","b"].
C9_OptionsAreSortedTokenSet ==
    \A h \in Handlers :
        (task[h].fn = "start" /\ IsSome(task[h].poll_data))
        => /\ Unwrap(task[h].poll_data).options
                = Ascending(NonEmptyTokens(RawOf(task[h])))
           /\ (RawOf(task[h]) = Example
                 => Unwrap(task[h].poll_data).options = <<A, B>>)

\* "b,a,a,,b" was parsed into ["a","b"] and is about to be stored.
C9_Witness ==
    \E h \in Handlers :
        /\ task[h].pc = "start_lock"
        /\ RawOf(task[h]) = Example
        /\ Unwrap(task[h].poll_data).options = <<A, B>>

IsBlank(s) == \A i \in 1..Len(s) : s[i] = " "

\* C10: entries that are empty after trimming are dropped, so no option that
\* start builds or stores is empty or whitespace-only; an input with no other
\* entry fails with "no options".
C10_NoBlankOption ==
    /\ \A h \in Handlers :
          IsSome(task[h].poll_data)
          => \A o \in Range(Unwrap(task[h].poll_data).options) : ~IsBlank(o)
    /\ \A id \in DOMAIN POLLS :
          \A o \in Range(POLLS[id].options) : ~IsBlank(o)
\* The message vote renders for record poll_data from the layout a press
\* carries, when that layout is well-formed.
Rendered(poll_data, components) ==
    Message(create_content(poll_data),
            <<ActionRow(UpdatedRow(poll_data, components).row)>>)

\* C11: a vote that repeats the voter's current entry leaves the record as it
\* was, so every option's count, and the message rendered for the layout the
\* press carries, are those of the record before the repeated vote.
C11_RepeatedVoteIsNoOp ==
    [][\A h \in Handlers :
          LET id == task'[h].interaction_id
              u == task'[h].member
          IN  (/\ VoteLookupStep(h) /\ id \in DOMAIN POLLS
               /\ u \in DOMAIN POLLS[id].votes
               /\ POLLS[id].votes[u] = task'[h].custom_id)
              => /\ POLLS' = POLLS
                 /\ \A o \in CustomIds :
                      votes_for(POLLS'[id], o) = votes_for(POLLS[id], o)
                 /\ task'[h].pc = "vote_respond"
                      => \E layout \in ShownLayouts(id)
                                       \cup MalformedLayouts \cup ForeignLayouts :
                            /\ UpdatedRow(POLLS[id], layout).err = ""
                            /\ Unwrap(task'[h].response) = Rendered(POLLS[id], layout)]_vars

\* The only voter's vote for a is in the ledger and on the message, and the
\* message rendered for the same vote again shows the same row.
C11_Witness ==
    \E h \in Handlers : \E id \in DOMAIN POLLS :
        /\ task[h].pc = "vote_respond" /\ task[h].interaction_id = id
        /\ task[h].custom_id = A
        /\ POLLS[id].votes = insert(EmptyMap, task[h].member, A)
        /\ IsSome(messages[id])
        /\ Unwrap(messages[id]).components =
               <<ActionRow(<<create_vote_button(A, 1), create_vote_button(B, 0)>>)>>
        /\ task[h].response = messages[id]

\* The row the record's options call for: one button per option, in option
\* order, each with the number of ledger entries equal to the option.
OptionRow(poll_data) ==
    ActionRow([i \in 1..Len(poll_data.options) |->
                 create_vote_button(poll_data.options[i],
                                    votes_for(poll_data, poll_data.options[i]))])

\* C12: every display that start or a successful vote produces has one row
\* with exactly one button per option of the record, in the record's order,
\* with the option as identifier and its current count, zero counts included,
\* whatever layout the press carried.
C12_DisplayShowsEveryOption ==
    \A h \in Handlers :
        /\ task[h].pc = "start_respond"
             => Unwrap(task[h].response).components
                    = <<OptionRow(Unwrap(task[h].poll_data))>>
        /\ task[h].pc = "vote_respond"
             => Unwrap(task[h].response).components
                    = <<OptionRow(POLLS[task[h].interaction_id])>>

\* Task h is a vote on poll id that has completed its ledger update.
VoteApplied(h, id) ==
    /\ task[h].fn = "vote" /\ task[h].interaction_id = id
    /\ \/ task[h].pc = "vote_respond"
       \/ task[h].pc = "done" /\ task[h].res \in {"Ok", "http error"}

\* C13: however concurrently dispatched votes on one stored poll interleave,
\* none is lost: the ledger has an entry for every voter whose vote has
\* completed its ledger update, and two distinct voters who both voted a, and
\* did not vote otherwise since, give a the count 2.
C13_NoVoteLost ==
    \A id \in DOMAIN POLLS : \A h \in Handlers :
        VoteApplied(h, id)
        => /\ task[h].member \in DOMAIN POLLS[id].votes
           /\ \A g \in Handlers \ {h} :
                 (/\ VoteApplied(g, id) /\ task[g].member # task[h].member
                  /\ task[g].custom_id = A /\ task[h].custom_id = A
                  /\ \A u \in DOMAIN POLLS[id].votes : POLLS[id].votes[u] = A)
                 => votes_for(POLLS[id], A) = 2

\* Two tasks have voted a for the two voters: the first saw its update shown
\* (a: 1), the second is sending a: 2.
C13_Witness ==
    \E id \in DOMAIN POLLS : \E h, g \in Handlers :
        /\ VoteApplied(h, id) /\ VoteApplied(g, id)
        /\ task[h].member # task[g].member
        /\ task[h].custom_id = A /\ task[g].custom_id = A
        /\ task[h].pc = "done" /\ task[h].res = "Ok"
        /\ task[g].pc = "vote_respond"
        /\ Unwrap(messages[id]).components =
               <<ActionRow(<<create_vote_button(A, 1), create_vote_button(B, 0)>>)>>
        /\ Unwrap(task[g].response).components =
               <<ActionRow(<<create_vote_button(A, 2), create_vote_button(B, 0)>>)>>

\* C14: a vote changes only its voter's ledger entry in the addressed record:
\* the record's start_time and options, the other voters' entries and every
\* other record stay as they were, so whether a sweep would evict a record
\* never depends on the votes it received.
C14_VoteChangesOnlyItsEntry ==
    [][\A h \in Handlers :
          VoteLookupStep(h)
          => /\ DOMAIN POLLS' = DOMAIN POLLS
             /\ \A id \in DOMAIN POLLS :
                  /\ POLLS'[id].start_time = POLLS[id].start_time
                  /\ POLLS'[id].options = POLLS[id].options
                  /\ Expired(POLLS'[id], PollDuration)
                        = Expired(POLLS[id], PollDuration)
                  /\ id # task'[h].interaction_id => POLLS'[id] = POLLS[id]
                  /\ \A u \in DOMAIN POLLS[id].votes \ {task'[h].member} :
                        /\ u \in DOMAIN POLLS'[id].votes
                        /\ POLLS'[id].votes[u] = POLLS[id].votes[u]
                  /\ DOMAIN POLLS'[id].votes
                        \subseteq DOMAIN POLLS[id].votes \cup {task'[h].member}]_vars

\* A vote was recorded on a poll of age L while a younger poll is stored: the
\* voted poll keeps its start_time.
C14_Witness ==
    \E h \in Handlers : \E id, other \in DOMAIN POLLS :
        /\ task[h].pc = "vote_respond" /\ task[h].interaction_id = id
        /\ task[h].member \in DOMAIN POLLS[id].votes
        /\ Age(id) = PollDuration
        /\ other # id /\ Age(other) < PollDuration

\* C15: no task holds the write lock of POLLS while it is suspended on a call
\* to the platform: a handler that awaits create_interaction_response is not
\* the holder of the lock, so that a call that is pending, or never returns,
\* keeps neither the cleaner nor another handler from taking it.
C15_NoLockAcrossNetworkCall ==
    \A h \in Handlers :
        task[h].pc \in {"start_respond", "vote_respond"} => lock # h

\* C16: a sweep is atomic for inserts and votes.  Between the cleaner's scan
\* and its removals no step changes the store; the removals take away exactly
\* the scanned keys, each record whole, and leave the others as they were;
\* and a vote either finds its record and is applied to it, or finds it
\* removed, fails with "unexpected interaction id" and changes nothing.
C16_SweepIsAtomic ==
    [][/\ (cleaner.pc = "remove" /\ cleaner'.pc = "remove") => POLLS' = POLLS
       /\ (cleaner.pc = "remove" /\ cleaner'.pc # "remove")
             => /\ DOMAIN POLLS' = DOMAIN POLLS \ cleaner.remove
                /\ \A id \in DOMAIN POLLS' : POLLS'[id] = POLLS[id]
       /\ \A h \in Handlers :
             LET id == task'[h].interaction_id
             IN  VoteLookupStep(h)
                 => /\ cleaner.pc # "remove"
                    /\ IF id \in DOMAIN POLLS
                       THEN /\ id \in DOMAIN POLLS'
                            /\ task'[h].member # None
                                 => POLLS'[id].votes[task'[h].member]
                                        = task'[h].custom_id
                       ELSE /\ task'[h].res = "unexpected interaction id"
                            /\ POLLS' = POLLS]_vars

\* The cleaner has scanned and is about to remove a poll, while a vote on that
\* poll and the insert of a new poll wait for the lock.
C16_Witness ==
    /\ cleaner.pc = "remove"
    /\ \E id \in cleaner.remove \cap DOMAIN POLLS : \E h, g \in Handlers :
          /\ task[h].pc = "vote_lock" /\ task[h].interaction_id = id
          /\ task[g].pc = "start_lock"

\* C17: the cleaner keeps sweeping: every stored record whose age can still
\* exceed the poll lifetime (before the clock of the model stops) is
\* eventually removed, whatever the handlers do.
C17_EveryRecordEvicted ==
    \A id \in PollIds :
        (id \in DOMAIN POLLS /\ POLLS[id].start_time + PollDuration < MaxTime)
        ~> (id \notin DOMAIN POLLS)

\* Task h returns an error in this step.
FailureStep(h) ==
    /\ task[h].pc # "done" /\ task'[h].pc = "done"
    /\ task'[h].res \notin {"Ok", ""}

\* C18: a failure of start or vote ends only the handler of its event: the
\* step in which it returns its error shows no message, leaves the other
\* tasks, the cleaner and the clock as they are and leaves the failed handler
\* without the lock; a failed start stores nothing; and the failed handler's
\* next step is the logging of the error, after which its slot takes the
\* next event.
C18_FailureEndsOnlyItsHandler ==
    [][\A h \in Handlers :
          /\ FailureStep(h)
             => /\ messages' = messages
                /\ \A g \in Handlers \ {h} : task'[g] = task[g]
                /\ cleaner' = cleaner /\ now' = now /\ evicted' = evicted
                /\ lock' # h
                /\ lock' \in {"free", lock}
                /\ task'[h].fn = "start" => POLLS' = POLLS
          /\ (task[h].pc = "done" /\ task[h].res \notin {"Ok", ""}
              /\ task'[h] # task[h])
             => task'[h] = Idle /\ lock' = lock /\ POLLS' = POLLS]_vars

\* A vote's update was refused: the vote is in the ledger, the message still
\* shows the row that start created, the lock is free and another event is
\* being handled.
C18_Witness ==
    \E h \in Handlers : \E id \in DOMAIN POLLS :
        /\ task[h].fn = "vote" /\ task[h].pc = "done"
        /\ task[h].res = "http error" /\ task[h].interaction_id = id
        /\ POLLS[id].votes # EmptyMap
        /\ Unwrap(messages[id]).components = <<StartRow(POLLS[id].options)>>
        /\ lock = "free"
        /\ \E g \in Handlers \ {h} : task[g].pc \in {"start_respond", "start_lock"}

\* C19: vote writes the ledger before it builds and sends the display and
\* never takes the write back: a vote that found its record and its member
\* leaves the entry in the ledger even when it then fails on the event's
\* layout, a refused update leaves the store as it is, and every count that a
\* later vote renders is taken from the whole ledger, such entries included.
C19_FailedVoteStaysCounted ==
    [][\A h \in Handlers :
          LET id == task'[h].interaction_id
              u == task'[h].member
          IN  /\ (VoteLookupStep(h) /\ id \in DOMAIN POLLS /\ u # None)
                 => /\ id \in DOMAIN POLLS'
                    /\ u \in DOMAIN POLLS'[id].votes
                    /\ POLLS'[id].votes[u] = task'[h].custom_id
                    /\ task'[h].pc = "vote_respond"
                         => LET row == Unwrap(task'[h].response).components[1].components
                            IN  \A i \in 1..Len(row) :
                                  row[i] = create_vote_button(
                                              Unwrap(row[i].custom_id),
                                              votes_for(POLLS'[id],
                                                        Unwrap(row[i].custom_id)))
              /\ (task[h].pc = "vote_respond" /\ task'[h].pc = "done")
                 => POLLS' = POLLS]_vars

\* No update of the poll's message was ever shown, yet the update being sent
\* for a vote for a counts two voters: the other voter's vote for a failed
\* after the ledger was written.
C19_Witness ==
    \E h \in Handlers : \E id \in DOMAIN POLLS :
        /\ task[h].pc = "vote_respond" /\ task[h].interaction_id = id
        /\ task[h].custom_id = A
        /\ Unwrap(messages[id]).components = <<StartRow(POLLS[id].options)>>
        /\ \E v \in DOMAIN POLLS[id].votes \ {task[h].member} :
              POLLS[id].votes[v] = A
        /\ Unwrap(task[h].response).components[1].components[1]
               = create_vote_button(A, 2)

\* The message of poll id was created and its start has yet to insert it.
AwaitingInsert(id) ==
    \E g \in Handlers :
        /\ task[g].fn = "start" /\ task[g].pc = "start_lock"
        /\ task[g].interaction_id = id

\* C20: start creates the message and inserts the record in two steps.  A
\* vote on the poll's id that runs between them fails with "unexpected
\* interaction id" and records nothing; a vote changes the store only if the
\* record of its id is stored, that is inserted and not yet evicted.
C20_VoteBeforeInsertFails ==
    [][\A h \in Handlers :
          LET id == task'[h].interaction_id
          IN  VoteLookupStep(h)
              => /\ AwaitingInsert(id)
                    => /\ IsSome(messages[id])
                       /\ task'[h].pc = "done"
                       /\ task'[h].res = "unexpected interaction id"
                       /\ POLLS' = POLLS
                 /\ POLLS' # POLLS
                    => /\ id \in DOMAIN POLLS
                       /\ id \notin DOMAIN evicted
                       /\ ~AwaitingInsert(id)]_vars

\* A press on the message of a poll that is not stored yet has failed, and
\* the start of that poll is still waiting to insert it.
C20_Witness ==
    \E h \in Handlers :
        /\ task[h].fn = "vote" /\ task[h].pc = "done"
        /\ task[h].res = "unexpected interaction id"
        /\ AwaitingInsert(task[h].interaction_id)
        /\ IsSome(messages[task[h].interaction_id])
        /\ task[h].interaction_id \notin DOMAIN POLLS
=============================================================================
